---- MODULE Spec2Model ----
(***************************************************************************)
(* Verification model of layers.py (FFT_Orthogonalizing):                  *)
(*   - cayley()                      exact arithmetic over Gaussian        *)
(*                                   integers, inverse as adjugate/det     *)
(*   - StridedConv.__init__ and the constructors layered on top of it      *)
(*   - CayleyConv / CayleyConvED / CayleyConvED2 forward: lazy caches and  *)
(*     tensor shapes                                                       *)
(*   - CayleyLinear.forward / reset_parameters: the cached Q               *)
(*   - GroupSort.forward                                                   *)
(* Floating point is abstracted to exact arithmetic; inputs are drawn from *)
(* sets on which every intermediate value is an exact (Gaussian) integer   *)
(* or a fraction of two of them.                                           *)
(***************************************************************************)
EXTENDS Integers, Sequences, FiniteSets, TLC

VARIABLES
    pc,        \* which harness is running and where it is
    cW,        \* cayley harness: the input tensor W
    cED,       \* cayley harness: the ED flag
    cQ,        \* cayley harness: the returned tensor (None before the call)
    ctor,      \* constructor harness: the call and what it built
    layer,     \* spectral layer instance: configuration and lazy caches
    fwd,       \* spectral layer: the last forward call and its outcome
    lin,       \* CayleyLinear instance: training, weight, alpha, Q
    linLast,   \* CayleyLinear: the last operation and the Q it used
    gs         \* GroupSort harness: two inputs and their outputs

vars == <<pc, cW, cED, cQ, ctor, layer, fwd, lin, linLast, gs>>

None == "None"

(***************************************************************************)
(* Complex numbers with integer parts: <<re, im>>.                         *)
(***************************************************************************)
CRe(z) == z[1]
CIm(z) == z[2]
CZero == <<0, 0>>
COne == <<1, 0>>
CAdd(a, b) == <<a[1] + b[1], a[2] + b[2]>>
CSub(a, b) == <<a[1] - b[1], a[2] - b[2]>>
CMul(a, b) == <<a[1] * b[1] - a[2] * b[2], a[1] * b[2] + a[2] * b[1]>>
CNeg(a) == <<0 - a[1], 0 - a[2]>>
CConj(a) == <<a[1], 0 - a[2]>>
CAbs2(a) == a[1] * a[1] + a[2] * a[2]

RECURSIVE CSum(_, _)
CSum(f, k) == IF k = 0 THEN CZero ELSE CAdd(CSum(f, k - 1), f[k])

(***************************************************************************)
(* Matrices: [r, c, e] with e[i][j] complex, i in 1..r, j in 1..c.         *)
(***************************************************************************)
eye(n) ==
    [r |-> n, c |-> n,
     e |-> [i \in 1..(n) |-> [j \in 1..(n) |-> IF i = j THEN COne ELSE CZero]]]

MatAdd(X, Y) ==
    [r |-> X.r, c |-> X.c,
     e |-> [i \in 1..(X.r) |-> [j \in 1..(X.c) |-> CAdd(X.e[i][j], Y.e[i][j])]]]

MatSub(X, Y) ==
    [r |-> X.r, c |-> X.c,
     e |-> [i \in 1..(X.r) |-> [j \in 1..(X.c) |-> CSub(X.e[i][j], Y.e[i][j])]]]

MatMul(X, Y) ==
    [r |-> X.r, c |-> Y.c,
     e |-> [i \in 1..(X.r) |-> [j \in 1..(Y.c) |-> CSum([k \in 1..X.c |-> CMul(X.e[i][k], Y.e[k][j])], X.c)]]]

MatScale(z, X) ==
    [r |-> X.r, c |-> X.c,
     e |-> [i \in 1..(X.r) |-> [j \in 1..(X.c) |-> CMul(z, X.e[i][j])]]]

transpose(X) ==
    [r |-> X.c, c |-> X.r,
     e |-> [i \in 1..(X.c) |-> [j \in 1..(X.r) |-> X.e[j][i]]]]

conj(X) ==
    [r |-> X.r, c |-> X.c,
     e |-> [i \in 1..(X.r) |-> [j \in 1..(X.c) |-> CConj(X.e[i][j])]]]

\* W[:, a:b] on the row axis of one batch slice (0-based, half open)
RowSlice(X, a, b) ==
    [r |-> b - a, c |-> X.c,
     e |-> [i \in 1..(b - a) |-> [j \in 1..(X.c) |-> X.e[a + i][j]]]]

\* torch.cat((X, Y), axis=1) on one batch slice: rows of Y under rows of X
cat(X, Y) ==
    [r |-> X.r + Y.r, c |-> X.c,
     e |-> [i \in 1..(X.r + Y.r) |-> [j \in 1..(X.c) |-> IF i <= X.r THEN X.e[i][j] ELSE Y.e[i - X.r][j]]]]

Minor(X, a, b) ==
    [r |-> X.r - 1, c |-> X.c - 1,
     e |-> [i \in 1..(X.r - 1) |-> [j \in 1..(X.c - 1) |-> X.e[IF i < a THEN i ELSE i + 1][IF j < b THEN j ELSE j + 1]]]]

Sign(k) == IF k % 2 = 0 THEN COne ELSE CNeg(COne)

RECURSIVE Det(_)
Det(X) ==
    IF X.r = 0 THEN COne
    ELSE CSum([j \in 1..X.c |->
                 CMul(CMul(Sign(1 + j), X.e[1][j]), Det(Minor(X, 1, j)))], X.c)

Adj(X) ==
    [r |-> X.r, c |-> X.c,
     e |-> [i \in 1..(X.r) |-> [j \in 1..(X.c) |-> CMul(Sign(i + j), Det(Minor(X, j, i)))]]]

(***************************************************************************)
(* torch.inverse(M) in exact arithmetic: the matrix num / den.             *)
(* den = 0 is the singular case, in which torch raises.                    *)
(***************************************************************************)
inverse(M) == [num |-> Adj(M), den |-> Det(M)]

(***************************************************************************)
(* cayley(W, ED).  A tensor is [dims, mats]: dims = len(W.shape), mats the *)
(* batch of matrices (one matrix when dims = 2).  The result has the same  *)
(* layout, every slice a fraction [num, den] standing for num / den.       *)
(***************************************************************************)
cayleyEDSymmetric(M) ==
    LET cin  == M.c
        I    == eye(cin)
        A    == MatAdd(M, transpose(conj(M)))
        iIpA == inverse(MatAdd(I, A))
    IN  [num |-> MatMul(iIpA.num, MatSub(I, A)), den |-> iIpA.den]

cayleyED(M) ==
    LET cin  == M.c
        I    == eye(cin)
        A    == MatSub(M, transpose(conj(M)))
        iIpA == inverse(MatAdd(I, A))
    IN  [num |-> MatMul(iIpA.num, MatSub(I, A)), den |-> iIpA.den]

cayleyRectNoDouble(M) ==
    LET cin  == M.c
        U    == RowSlice(M, 0, cin)
        V    == RowSlice(M, cin, M.r)
        I    == eye(cin)
        A    == MatAdd(MatSub(U, transpose(conj(U))), MatMul(transpose(conj(V)), V))
        iIpA == inverse(MatAdd(I, A))
    IN  [num |-> cat(MatMul(iIpA.num, MatSub(I, A)),
                     MatScale(<<-1, 0>>, MatMul(V, iIpA.num))),
         den |-> iIpA.den]

cayleyRect(M) ==
    LET cin  == M.c
        U    == RowSlice(M, 0, cin)
        V    == RowSlice(M, cin, M.r)
        I    == eye(cin)
        A    == MatAdd(MatSub(U, transpose(conj(U))), MatMul(transpose(conj(V)), V))
        iIpA == inverse(MatAdd(I, A))
    IN  [num |-> cat(MatMul(iIpA.num, MatSub(I, A)),
                     MatScale(<<-2, 0>>, MatMul(V, iIpA.num))),
         den |-> iIpA.den]

TensorT(T) == [dims |-> T.dims, mats |-> [b \in 1..Len(T.mats) |-> transpose(T.mats[b])]]

FracT(T) ==
    [dims |-> T.dims,
     mats |-> [b \in 1..Len(T.mats) |->
                 [num |-> transpose(T.mats[b].num), den |-> T.mats[b].den]]]

RECURSIVE cayley(_, _)
cayley(W, ED) ==
    IF W.dims = 2
    THEN [dims |-> 2, mats |-> <<cayley([dims |-> 3, mats |-> W.mats], FALSE).mats[1]>>]
    ELSE IF ED
    THEN [dims |-> 3, mats |-> [b \in 1..Len(W.mats) |-> cayleyED(W.mats[b])]]
    ELSE IF W.mats[1].c > W.mats[1].r
    THEN FracT(cayley(TensorT(W), FALSE))
    ELSE [dims |-> 3, mats |-> [b \in 1..Len(W.mats) |-> cayleyRect(W.mats[b])]]

(***************************************************************************)
(* Harness for cayley: W is drawn from bounded sets of real and complex    *)
(* tensors, then cayley(W, ED) is applied once.                            *)
(***************************************************************************)
MaxVal == 1

RealVals == {<<v, 0>> : v \in (0 - MaxVal)..MaxVal}
ComplexVals == {<<v, w>> : v \in {-1, 0, 1}, w \in {-1, 0, 1}}

RealShapes == {<<1, 1>>, <<2, 1>>, <<1, 2>>, <<2, 2>>, <<3, 1>>, <<1, 3>>, <<3, 2>>, <<2, 3>>}
ComplexShapes == {<<1, 1>>, <<2, 1>>, <<1, 2>>, <<2, 2>>, <<3, 1>>}
PairShapes == {<<1, 1>>, <<2, 1>>}

Mats(sh, Vals) == {[r |-> sh[1], c |-> sh[2], e |-> e] : e \in [1..sh[1] -> [1..sh[2] -> Vals]]}

IsSquare(T) == T.mats[1].r = T.mats[1].c

InitCayley ==
    /\ pc = "cayley:input"
    /\ \/ \E sh \in RealShapes, d \in {2, 3} : \E M \in Mats(sh, RealVals) :
             cW = [dims |-> d, mats |-> <<M>>]
       \/ \E sh \in ComplexShapes, d \in {2, 3} : \E M \in Mats(sh, ComplexVals) :
             cW = [dims |-> d, mats |-> <<M>>]
       \/ \E sh \in PairShapes : \E M \in Mats(sh, RealVals), N \in Mats(sh, RealVals) :
             cW = [dims |-> 3, mats |-> <<M, N>>]
    /\ cED \in (IF IsSquare(cW) THEN BOOLEAN ELSE {FALSE})
    /\ cQ = None
    /\ ctor = None /\ layer = None /\ fwd = None
    /\ lin = None /\ linLast = None /\ gs = None

ApplyCayley ==
    /\ pc = "cayley:input"
    /\ cQ' = cayley(cW, cED)
    /\ pc' = "cayley:done"
    /\ UNCHANGED <<cW, cED, ctor, layer, fwd, lin, linLast, gs>>

NextCayley == ApplyCayley

SpecCayley == InitCayley /\ [][NextCayley]_vars

\* q = num / den satisfies q @ q^H = I
IsUnitaryFrac(q) ==
    /\ q.den # CZero
    /\ MatMul(q.num, transpose(conj(q.num))) = MatScale(<<CAbs2(q.den), 0>>, eye(q.num.r))

\* q = num / den satisfies q^H @ q = I
HasOrthonormalColumns(q) ==
    /\ q.den # CZero
    /\ MatMul(transpose(conj(q.num)), q.num) = MatScale(<<CAbs2(q.den), 0>>, eye(q.num.c))

\* C2: for every square W (real or complex, batched or not) the result of
\* cayley(W, ED=True) is unitary in every batch slice: Q @ Q^H = I.
C2_EDUnitary ==
    (pc = "cayley:done" /\ cED) =>
        /\ cQ.dims = cW.dims
        /\ Len(cQ.mats) = Len(cW.mats)
        /\ \A b \in 1..Len(cQ.mats) : IsUnitaryFrac(cQ.mats[b])

C2_Witness ==
    /\ pc = "cayley:done" /\ cED /\ cW.dims = 3
    /\ cW.mats[1].r = 2
    /\ cW.mats[1].e[1][2] = <<1, 1>>
    /\ cW.mats[1].e[2][1] = <<0, -1>>
    /\ cQ.mats[1].num # MatScale(cQ.mats[1].den, eye(2))

\* C3: for every W of shape (out, in) with out >= in, cayley(W) has shape
\* (out, in) and orthonormal columns: Q^H @ Q = I_in.
C3_RectOrthonormal ==
    (pc = "cayley:done" /\ ~cED /\ cW.mats[1].r >= cW.mats[1].c) =>
        /\ cQ.dims = cW.dims
        /\ Len(cQ.mats) = Len(cW.mats)
        /\ \A b \in 1..Len(cQ.mats) :
              /\ cQ.mats[b].num.r = cW.mats[b].r
              /\ cQ.mats[b].num.c = cW.mats[b].c
              /\ HasOrthonormalColumns(cQ.mats[b])

C3_Witness ==
    /\ pc = "cayley:done" /\ ~cED
    /\ cW.mats[1].r = 3 /\ cW.mats[1].c = 2
    /\ cW.mats[1].e[3][1] = <<1, 0>>
    /\ cW.mats[1].e[1][2] = <<1, 0>>
    /\ cW.mats[1].e[2][1] = <<0, 0>>

(***************************************************************************)
(* Constructors.  A call is (args, kwargs): args a sequence, kwargs a      *)
(* function from keyword names to values.                                  *)
(***************************************************************************)
NoKw == [x \in {} |-> 0]
HasKey(kw, k) == k \in DOMAIN kw
SetKey(kw, k, v) == [x \in (DOMAIN kw) \cup {k} |-> IF x = k THEN v ELSE kw[x]]
SetArg(args, i, v) == [args EXCEPT ![i] = v]
max(a, b) == IF a >= b THEN a ELSE b

\* the base module's __init__(in_channels, out_channels, kernel_size,
\* stride=1, padding=0): argument binding and the weight it allocates
Conv2dInit(args, kwargs) ==
    IF \/ Len(args) < 2
       \/ Len(args) > 3
       \/ (Len(args) = 3 /\ HasKey(kwargs, "kernel_size"))
       \/ (Len(args) < 3 /\ ~HasKey(kwargs, "kernel_size"))
    THEN [status |-> "raise"]
    ELSE LET k == IF Len(args) = 3 THEN args[3] ELSE kwargs["kernel_size"]
         IN  [status       |-> "ok",
              in_channels  |-> args[1],
              out_channels |-> args[2],
              kernel_size  |-> k,
              stride       |-> IF HasKey(kwargs, "stride") THEN kwargs["stride"] ELSE 1,
              padding      |-> IF HasKey(kwargs, "padding") THEN kwargs["padding"] ELSE 0,
              weight_shape |-> <<args[2], args[1], k, k>>]

StridedConvInitKeepKernel(args, kwargs) ==
    IF HasKey(kwargs, "stride") /\ kwargs["stride"] = 2
    THEN IF Len(args) = 0 THEN [status |-> "raise"]
         ELSE LET a0 == SetArg(args, 1, 4 * args[1])
                  kw0 == SetKey(kwargs, "stride", 1)
              IN  IF Len(a0) = 3
                  THEN Conv2dInit(a0, SetKey(kw0, "padding", a0[3] \div 2))
                       @@ [striding |-> TRUE]
                  ELSE IF HasKey(kw0, "kernel_size")
                  THEN LET kw1 == SetKey(kw0, "kernel_size", max(1, kw0["kernel_size"] \div 2))
                       IN  Conv2dInit(a0, SetKey(kw1, "padding", kw1["kernel_size"] \div 2))
                           @@ [striding |-> TRUE]
                  ELSE Conv2dInit(a0, kw0) @@ [striding |-> TRUE]
    ELSE IF Len(args) = 3
         THEN Conv2dInit(args, SetKey(kwargs, "padding", args[3] \div 2))
              @@ [striding |-> FALSE]
         ELSE IF HasKey(kwargs, "kernel_size")
         THEN Conv2dInit(args, SetKey(kwargs, "padding", kwargs["kernel_size"] \div 2))
              @@ [striding |-> FALSE]
         ELSE [status |-> "raise"]

\* StridedConv.__init__: the rewritten call handed to the base module, and
\* whether the space-to-depth pre-hook is registered
StridedConvInit(args, kwargs) ==
    IF HasKey(kwargs, "stride") /\ kwargs["stride"] = 2
    THEN IF Len(args) = 0 THEN [status |-> "raise"]
         ELSE LET a0 == SetArg(args, 1, 4 * args[1])
                  kw0 == SetKey(kwargs, "stride", 1)
              IN  IF Len(a0) = 3
                  THEN LET a1 == SetArg(a0, 3, max(1, a0[3] \div 2))
                       IN  Conv2dInit(a1, SetKey(kw0, "padding", a1[3] \div 2))
                           @@ [striding |-> TRUE]
                  ELSE IF HasKey(kw0, "kernel_size")
                  THEN LET kw1 == SetKey(kw0, "kernel_size", max(1, kw0["kernel_size"] \div 2))
                       IN  Conv2dInit(a0, SetKey(kw1, "padding", kw1["kernel_size"] \div 2))
                           @@ [striding |-> TRUE]
                  ELSE Conv2dInit(a0, kw0) @@ [striding |-> TRUE]
    ELSE IF Len(args) = 3
         THEN Conv2dInit(args, SetKey(kwargs, "padding", args[3] \div 2))
              @@ [striding |-> FALSE]
         ELSE IF HasKey(kwargs, "kernel_size")
         THEN Conv2dInit(args, SetKey(kwargs, "padding", kwargs["kernel_size"] \div 2))
              @@ [striding |-> FALSE]
         ELSE [status |-> "raise"]

\* CayleyConv.__init__ and the pass-through classes BCOP, RKO, OSSN, SVCM
PlainStridedInit(args, kwargs) == StridedConvInit(args, kwargs)

\* CayleyConvED.__init__ / CayleyConvED2.__init__ (the two are identical)
CayleyConvEDInit(args, kwargs) ==
    IF Len(args) < 3 THEN [status |-> "raise"]
    ELSE LET two     == HasKey(kwargs, "stride") /\ kwargs["stride"] = 2
             stride  == IF two THEN 2 ELSE 1
             xcin    == IF two THEN 4 * args[1] ELSE args[1]
             padding == IF two THEN 1 ELSE 0
             k       == IF two THEN max(1, args[3] \div 2) ELSE args[3]
         IN  StridedConvInit(<<args[1], xcin, k>>,
                             SetKey(SetKey(NoKw, "padding", padding), "stride", stride))
             @@ [xcin |-> xcin, cout |-> args[2], bias_shape |-> <<args[2]>>]

PassThroughKinds == {"CayleyConv", "BCOP", "RKO", "OSSN", "SVCM"}
EDKinds == {"CayleyConvED", "CayleyConvED2"}

MaxKernel == 5
Channels == {1, 2, 4}
StrideKw == {NoKw} \cup {SetKey(NoKw, "stride", s) : s \in {1, 2, 3}}

CtorCalls(kernels) ==
    {[args |-> <<i, o, k>>, kwargs |-> kw] :
        i \in Channels, o \in Channels, k \in kernels, kw \in StrideKw}
    \cup
    {[args |-> <<i, o>>, kwargs |-> SetKey(kw, "kernel_size", k)] :
        i \in Channels, o \in Channels, k \in kernels, kw \in StrideKw}

InitStride ==
    /\ pc = "ctor:new"
    /\ \E kind \in PassThroughKinds \cup EDKinds, call \in CtorCalls(1..MaxKernel) :
          ctor = [kind |-> kind, args |-> call.args, kwargs |-> call.kwargs, base |-> None]
    /\ cW = None /\ cED = None /\ cQ = None
    /\ layer = None /\ fwd = None
    /\ lin = None /\ linLast = None /\ gs = None

ConstructPassThrough ==
    /\ pc = "ctor:new"
    /\ ctor.kind \in PassThroughKinds
    /\ ctor' = [ctor EXCEPT !.base = PlainStridedInit(ctor.args, ctor.kwargs)]
    /\ pc' = "ctor:built"
    /\ UNCHANGED <<cW, cED, cQ, layer, fwd, lin, linLast, gs>>

ConstructED ==
    /\ pc = "ctor:new"
    /\ ctor.kind \in EDKinds
    /\ ctor' = [ctor EXCEPT !.base = CayleyConvEDInit(ctor.args, ctor.kwargs)]
    /\ pc' = "ctor:built"
    /\ UNCHANGED <<cW, cED, cQ, layer, fwd, lin, linLast, gs>>

NextStride == ConstructPassThrough \/ ConstructED

SpecStride == InitStride /\ [][NextStride]_vars

Stride2Positional ==
    /\ pc = "ctor:built"
    /\ Len(ctor.args) = 3
    /\ HasKey(ctor.kwargs, "stride") /\ ctor.kwargs["stride"] = 2

HalvedOnce(k) == max(1, k \div 2)

BaseIsStridedRewrite ==
    /\ ctor.base.status = "ok"
    /\ ctor.base.in_channels = 4 * ctor.args[1]
    /\ ctor.base.out_channels = ctor.args[2]
    /\ ctor.base.kernel_size = HalvedOnce(ctor.args[3])
    /\ ctor.base.padding = HalvedOnce(ctor.args[3]) \div 2
    /\ ctor.base.stride = 1

\* C1 (as stated): every layer built on StridedConv, constructed with
\* positional (in, out, k) and stride=2, builds its base module with
\* in_channels = 4*in, out_channels = out, kernel_size = max(1, k // 2),
\* padding = kernel_size // 2 and stride = 1.
C1_AllLayers == Stride2Positional => BaseIsStridedRewrite

\* C1 (amended): the same, for the layers that hand their constructor
\* arguments to StridedConv unchanged (CayleyConv, BCOP, RKO, OSSN, SVCM).
C1_PassThroughLayers ==
    (Stride2Positional /\ ctor.kind \in PassThroughKinds) => BaseIsStridedRewrite

C1_Witness ==
    /\ Stride2Positional
    /\ ctor.kind = "BCOP"
    /\ ctor.args = <<4, 2, 3>>
    /\ ctor.base.in_channels = 16
    /\ ctor.base.kernel_size = 1
    /\ ctor.base.padding = 0
    /\ ctor.base.stride = 1

\* C9: CayleyConvED / CayleyConvED2 with positional (c, out, k): stride=2
\* gives a stride-1 convolution with weight (4c, 4c, k', k'), k' =
\* max(1, k // 2) (halved once) and padding k' // 2; stride 1 gives weight
\* (c, c, k, k).
C9_EDWeightShape ==
    (pc = "ctor:built" /\ ctor.kind \in EDKinds /\ Len(ctor.args) = 3) =>
        /\ ctor.base.status = "ok"
        /\ IF HasKey(ctor.kwargs, "stride") /\ ctor.kwargs["stride"] = 2
           THEN /\ ctor.base.stride = 1
                /\ ctor.base.weight_shape =
                      <<4 * ctor.args[1], 4 * ctor.args[1],
                        HalvedOnce(ctor.args[3]), HalvedOnce(ctor.args[3])>>
                /\ ctor.base.padding = HalvedOnce(ctor.args[3]) \div 2
           ELSE (~HasKey(ctor.kwargs, "stride") \/ ctor.kwargs["stride"] = 1) =>
                   ctor.base.weight_shape =
                      <<ctor.args[1], ctor.args[1], ctor.args[3], ctor.args[3]>>

(***************************************************************************)
(* Spectral layers: forward.  Tensor values are abstracted to their shape  *)
(* and to whether they are identically zero; the lazy caches record the    *)
(* spatial size they were built for.                                       *)
(***************************************************************************)
Absent == [tag |-> "absent"]
Unset == [tag |-> "None"]
IsSet(c) == c.tag = "set"

\* number of rfft2 frequency bins of an n x n input: n * (n // 2 + 1)
nfreq(n) == n * (n \div 2 + 1)

\* broadcasting of one dimension
Broadcastable(a, b) == a = b \/ a = 1 \/ b = 1
Broadcast(a, b) == max(a, b)

\* the forward pre-hook registered by StridedConv when striding:
\* einops.rearrange(x, "b c (w k1) (h k2) -> b (c k1 k2) w h", k1=2, k2=2)
PreHook(l, x) ==
    IF ~l.striding THEN [status |-> "ok", x |-> x]
    ELSE IF x.n % 2 # 0 THEN [status |-> "raise"]
    ELSE [status |-> "ok", x |-> [x EXCEPT !.c = 4 * x.c, !.n = x.n \div 2]]

\* self.shift_matrix = self.fft_shift_matrix(n, -s)[:, :(n//2 + 1)].reshape(n * (n // 2 + 1), 1, 1)
MakeShiftMatrix(l, n) ==
    [tag |-> "set", n |-> n, s |-> (l.wshape[3] - 1) \div 2, len |-> nfreq(n)]

\* if not hasattr(self, 'shift_matrix'): self.shift_matrix = ...
WithShiftMatrix(l, n) ==
    IF l.shift_matrix = Absent
    THEN [l EXCEPT !.shift_matrix = MakeShiftMatrix(l, n), !.shiftBuilds = @ + 1]
    ELSE l

WithAlphaAlways(l, n) ==
    [l EXCEPT !.alpha = [tag |-> "set", n |-> n, call |-> l.calls], !.alphaAssigns = @ + 1]

\* if self.alpha is None: self.alpha = nn.Parameter(wfft.norm() ...)
WithAlpha(l, n) ==
    IF l.alpha = Unset
    THEN [l EXCEPT !.alpha = [tag |-> "set", n |-> n, call |-> l.calls], !.alphaAssigns = @ + 1]
    ELSE l

\* CayleyConvED.genH(n, k, cout, xcin): self.H of shape (nfreq(n), cout, xcin)
genH(l, n) ==
    [l EXCEPT !.H = [tag |-> "set", n |-> n, len |-> nfreq(n), cout |-> l.cout, xcin |-> l.xcin],
              !.genHCalls = @ + 1]

\* CayleyConvED2.genH(cout, xcin): self.H of shape (cout, xcin, 1, 1)
genH2(l) ==
    [l EXCEPT !.H = [tag |-> "set", n |-> 0, len |-> 1, cout |-> l.cout, xcin |-> l.xcin],
              !.genHCalls = @ + 1]

\* torch.fft.irfft2 of a (b, c, n, n // 2 + 1) tensor: last axis 2 * (m - 1)
irfft2Width(n) == 2 * ((n \div 2 + 1) - 1)

OutValue(l, x) ==
    IF x.zero THEN (IF l.has_bias THEN "bias" ELSE "zero") ELSE "data"

Raise(l, x, at) ==
    [layer |-> l,
     res   |-> [status |-> "raise", at |-> at, x |-> x, n |-> x.n]]

Return(l, x, c) ==
    [layer |-> l,
     res   |-> [status |-> "ok", at |-> "return", x |-> x, n |-> x.n,
                out_shape |-> <<x.b, c, x.n, irfft2Width(x.n)>>,
                value |-> OutValue(l, x),
                shift_n |-> l.shift_matrix.n,
                H_n |-> IF IsSet(l.H) THEN l.H.n ELSE 0]]

\* CayleyConv.forward
CayleyConvForward(l0, x) ==
    LET cout == l0.wshape[1]
        cin  == l0.wshape[2]
        n    == x.n
        l1   == WithShiftMatrix(l0, n)
        F    == Broadcast(l1.shift_matrix.len, nfreq(n))
        l2   == WithAlpha(l1, n)
    IN  IF x.c # cin THEN Raise(l1, x, "xfft")
        ELSE IF ~Broadcastable(l1.shift_matrix.len, nfreq(n)) THEN Raise(l1, x, "wfft")
        ELSE IF F # nfreq(n) THEN Raise(l2, x, "yfft")
        ELSE IF irfft2Width(n) = 0 THEN Raise(l2, x, "irfft2")
        ELSE Return(l2, x, cout)

\* CayleyConvED.forward
CayleyConvEDForward(l0, x) ==
    LET n    == x.n
        l1   == WithShiftMatrix(l0, n)
        F    == Broadcast(l1.shift_matrix.len, nfreq(n))
        l2   == WithAlpha(l1, n)
        l3   == IF l2.H = Unset THEN genH(l2, n) ELSE l2
        G    == Broadcast(l3.H.len, F)
    IN  IF x.c # l0.xcin THEN Raise(l1, x, "xfft")
        ELSE IF ~Broadcastable(l1.shift_matrix.len, nfreq(n)) THEN Raise(l1, x, "wfft")
        ELSE IF ~Broadcastable(l3.H.len, F) THEN Raise(l3, x, "cwxfft")
        ELSE IF G # nfreq(n) THEN Raise(l3, x, "yfft")
        ELSE IF irfft2Width(n) = 0 THEN Raise(l3, x, "irfft2")
        ELSE Return(l3, x, l0.cout)

\* CayleyConvED2.forward
CayleyConvED2Forward(l0, x) ==
    LET n    == x.n
        l1   == WithShiftMatrix(l0, n)
        F    == Broadcast(l1.shift_matrix.len, nfreq(n))
        l2   == WithAlpha(l1, n)
        l3   == IF l2.H = Unset THEN genH2(l2) ELSE l2
    IN  IF x.c # l0.xcin THEN Raise(l1, x, "xfft")
        ELSE IF ~Broadcastable(l1.shift_matrix.len, nfreq(n)) THEN Raise(l1, x, "wfft")
        ELSE IF F # nfreq(n) THEN Raise(l2, x, "yfft")
        ELSE IF irfft2Width(n) = 0 THEN Raise(l2, x, "irfft2")
        ELSE Return(l3, x, l0.cout)

\* Module.__call__ without the forward body: the pre-hook and the call count
EnterForward(l, x) ==
    LET h == PreHook(l, x)
    IN  IF h.status = "raise"
        THEN [status |-> "raise",
              out |-> [layer |-> l,
                       res |-> [status |-> "raise", at |-> "pre_hook", x |-> x, n |-> x.n]]]
        ELSE [status |-> "ok", layer |-> [l EXCEPT !.calls = @ + 1], x |-> h.x]

MaxN == 4
MaxCalls == 3
LayerChannels == {1, 2}
LayerKernels == {1, 3}
Batches == {1, 2}
LayerStrideKw == {NoKw, SetKey(NoKw, "stride", 2)}

Inputs == [b : Batches, c : LayerChannels, n : 1..MaxN, zero : BOOLEAN]

\* the instance right after __init__: weight allocated by the base module,
\* alpha registered as None, H = None (ED layers), no shift_matrix attribute
NewLayer(kind, args, kwargs, bias) ==
    LET base == IF kind \in EDKinds THEN CayleyConvEDInit(args, kwargs)
                ELSE PlainStridedInit(args, kwargs)
    IN  [kind         |-> kind,
         wshape       |-> base.weight_shape,
         striding     |-> base.striding,
         xcin         |-> IF kind \in EDKinds THEN base.xcin ELSE base.in_channels,
         cout         |-> IF kind \in EDKinds THEN base.cout ELSE base.out_channels,
         has_bias     |-> IF kind \in EDKinds THEN TRUE ELSE bias,
         shift_matrix |-> Absent,
         alpha        |-> Unset,
         H            |-> IF kind \in EDKinds THEN Unset ELSE Absent,
         calls        |-> 0,
         shiftBuilds  |-> 0,
         alphaAssigns |-> 0,
         genHCalls    |-> 0]

InitConv ==
    /\ pc = "conv"
    /\ \E kind \in {"CayleyConv"} \cup EDKinds, i \in LayerChannels, o \in LayerChannels,
          k \in LayerKernels, kw \in LayerStrideKw, bias \in BOOLEAN :
          layer = NewLayer(kind, <<i, o, k>>, kw, bias)
    /\ fwd = [status |-> "none"]
    /\ cW = None /\ cED = None /\ cQ = None /\ ctor = None
    /\ lin = None /\ linLast = None /\ gs = None

ForwardCayleyConv ==
    /\ pc = "conv"
    /\ layer.kind = "CayleyConv"
    /\ layer.calls < MaxCalls
    /\ \E x \in Inputs :
          LET e == EnterForward(layer, x)
              r == IF e.status = "raise" THEN e.out ELSE CayleyConvForward(e.layer, e.x)
          IN  /\ layer' = r.layer
              /\ fwd' = r.res
    /\ UNCHANGED <<pc, cW, cED, cQ, ctor, lin, linLast, gs>>

ForwardCayleyConvED ==
    /\ pc = "conv"
    /\ layer.kind = "CayleyConvED"
    /\ layer.calls < MaxCalls
    /\ \E x \in Inputs :
          LET e == EnterForward(layer, x)
              r == IF e.status = "raise" THEN e.out ELSE CayleyConvEDForward(e.layer, e.x)
          IN  /\ layer' = r.layer
              /\ fwd' = r.res
    /\ UNCHANGED <<pc, cW, cED, cQ, ctor, lin, linLast, gs>>

ForwardCayleyConvED2 ==
    /\ pc = "conv"
    /\ layer.kind = "CayleyConvED2"
    /\ layer.calls < MaxCalls
    /\ \E x \in Inputs :
          LET e == EnterForward(layer, x)
              r == IF e.status = "raise" THEN e.out ELSE CayleyConvED2Forward(e.layer, e.x)
          IN  /\ layer' = r.layer
              /\ fwd' = r.res
    /\ UNCHANGED <<pc, cW, cED, cQ, ctor, lin, linLast, gs>>

NextConv == ForwardCayleyConv \/ ForwardCayleyConvED \/ ForwardCayleyConvED2

SpecConv == InitConv /\ [][NextConv]_vars

NoCaches ==
    /\ ~IsSet(layer.shift_matrix)
    /\ ~IsSet(layer.alpha)
    /\ ~IsSet(layer.H)

AllCaches ==
    /\ IsSet(layer.shift_matrix)
    /\ IsSet(layer.alpha)
    /\ (layer.kind \in EDKinds => IsSet(layer.H))
    /\ (layer.kind \notin EDKinds => layer.H = Absent)

CreatedAtMostOnce ==
    /\ layer.shiftBuilds <= 1
    /\ layer.alphaAssigns <= 1
    /\ layer.genHCalls <= 1

NeverRecreated ==
    /\ IsSet(layer.shift_matrix) => layer'.shift_matrix = layer.shift_matrix
    /\ IsSet(layer.alpha) => layer'.alpha = layer.alpha
    /\ IsSet(layer.H) => layer'.H = layer.H

\* C5 (as stated): shift_matrix, alpha and H do not exist before the first
\* forward call, exist after it (alpha assigned by that first call), and
\* are created at most once (genH runs at most once).
C5_CreatedByFirstCall ==
    /\ layer.calls = 0 => NoCaches
    /\ layer.calls >= 1 => (AllCaches /\ layer.alpha.call = 1)
    /\ CreatedAtMostOnce

\* C5 (amended): shift_matrix, alpha and H do not exist before the first
\* forward call, all exist once a forward call has returned without
\* raising (a call that raises may leave some of them uncreated, to be
\* created by a later call), and no forward call re-creates one that
\* exists: each is built at most once, genH runs at most once and alpha is
\* assigned at most once.
C5_LazyCreatedOnce ==
    /\ [](layer.calls = 0 => NoCaches)
    /\ [](fwd.status = "ok" => AllCaches)
    /\ []CreatedAtMostOnce
    /\ [][NeverRecreated]_vars

C5_Witness ==
    /\ layer.kind = "CayleyConvED"
    /\ layer.calls = 3
    /\ fwd.status = "ok"
    /\ layer.alpha.call = 2
    /\ layer.shiftBuilds = 1 /\ layer.alphaAssigns = 1 /\ layer.genHCalls = 1

\* C6: every forward call that returns without raising on an input of
\* spatial size n used a shift_matrix (and, for CayleyConvED, an H) built
\* for that same n.
C6_CachesMatchInput ==
    fwd.status = "ok" =>
        /\ fwd.shift_n = fwd.n
        /\ (layer.kind = "CayleyConvED" => fwd.H_n = fwd.n)

\* C8: a stride-1 CayleyConv with in = out = c, given a square input
\* (b, c, n, n), n >= 1, returns a tensor of shape (b, c, n, n); on an
\* all-zero input the output is the broadcast bias (zero without bias).
C8_SameShape ==
    (/\ layer.kind = "CayleyConv"
     /\ ~layer.striding
     /\ layer.wshape[1] = layer.wshape[2]
     /\ fwd.status # "none"
     /\ fwd.x.c = layer.wshape[2]) =>
        /\ fwd.status = "ok"
        /\ fwd.out_shape = <<fwd.x.b, fwd.x.c, fwd.x.n, fwd.x.n>>
        /\ fwd.x.zero => fwd.value = (IF layer.has_bias THEN "bias" ELSE "zero")

(***************************************************************************)
(* CayleyLinear.  Weights are real (out, in) = (2, 1) matrices drawn from  *)
(* a set on which weight.norm() is an integer dividing alpha * weight.     *)
(***************************************************************************)
SumSq(M) == CSum([i \in 1..M.r |-> CSum([j \in 1..M.c |-> <<CAbs2(M.e[i][j]), 0>>], M.c)], M.r)[1]

\* weight.norm(): the Frobenius norm (exact on the weights used here)
norm(M) == CHOOSE r \in 0..SumSq(M) : r * r <= SumSq(M) /\ SumSq(M) < (r + 1) * (r + 1)

\* alpha * weight / weight.norm()
ScaledWeight(alpha, M) ==
    [r |-> M.r, c |-> M.c,
     e |-> [i \in 1..(M.r) |-> [j \in 1..(M.c) |-> <<(alpha * M.e[i][j][1]) \div norm(M), 0>>]]]

Column(a, b) == [r |-> 2, c |-> 1, e |-> <<(<<(<<a, 0>>)>>), (<<(<<b, 0>>)>>)>>]

LinWeights == {Column(3, 4), Column(4, 3), Column(0, 5), Column(5, 0)}
LinAlphas == {5, 10}
MaxLinCalls == 3

\* the Q that forward computes from the current parameters
FreshQ(l) ==
    [tag |-> "set",
     q   |-> cayley([dims |-> 2, mats |-> <<ScaledWeight(l.alpha, l.weight)>>], FALSE).mats[1]]

\* two fractions num / den denote the same matrix
FracEq(p, q) == MatScale(q.den, p.num) = MatScale(p.den, q.num)

\* CayleyLinear.__init__: nn.Linear.__init__ calls reset_parameters (Q = None),
\* alpha.data = weight.norm(); a new module is in training mode
InitLinear ==
    /\ pc = "linear"
    /\ \E w \in LinWeights :
          lin = [training |-> TRUE, weight |-> w, alpha |-> norm(w), Q |-> Unset, calls |-> 0]
    /\ linLast = [op |-> "__init__", recomputed |-> FALSE, used |-> Unset]
    /\ cW = None /\ cED = None /\ cQ = None /\ ctor = None
    /\ layer = None /\ fwd = None /\ gs = None

LinearForwardIfNone(l) ==
    IF l.Q = Unset
    THEN [lin |-> [l EXCEPT !.Q = FreshQ(l), !.calls = @ + 1],
          last |-> [op |-> "forward", recomputed |-> TRUE, used |-> FreshQ(l)]]
    ELSE [lin |-> [l EXCEPT !.calls = @ + 1],
          last |-> [op |-> "forward", recomputed |-> FALSE, used |-> l.Q]]

\* CayleyLinear.forward
LinearForward(l) ==
    IF l.training \/ l.Q = Unset
    THEN [lin |-> [l EXCEPT !.Q = FreshQ(l), !.calls = @ + 1],
          last |-> [op |-> "forward", recomputed |-> TRUE, used |-> FreshQ(l)]]
    ELSE [lin |-> [l EXCEPT !.calls = @ + 1],
          last |-> [op |-> "forward", recomputed |-> FALSE, used |-> l.Q]]

Forward ==
    /\ pc = "linear"
    /\ lin.calls < MaxLinCalls
    /\ lin' = LinearForward(lin).lin
    /\ linLast' = LinearForward(lin).last
    /\ UNCHANGED <<pc, cW, cED, cQ, ctor, layer, fwd, gs>>

\* CayleyLinear.reset_parameters: weight re-drawn, Q = None
ResetParameters ==
    /\ pc = "linear"
    /\ \E w \in LinWeights : lin' = [lin EXCEPT !.weight = w, !.Q = Unset]
    /\ linLast' = [op |-> "reset_parameters", recomputed |-> FALSE, used |-> Unset]
    /\ UNCHANGED <<pc, cW, cED, cQ, ctor, layer, fwd, gs>>

\* module.train() / module.eval()
Train ==
    /\ pc = "linear"
    /\ lin' = [lin EXCEPT !.training = TRUE]
    /\ linLast' = [op |-> "train", recomputed |-> FALSE, used |-> Unset]
    /\ UNCHANGED <<pc, cW, cED, cQ, ctor, layer, fwd, gs>>

Eval ==
    /\ pc = "linear"
    /\ lin' = [lin EXCEPT !.training = FALSE]
    /\ linLast' = [op |-> "eval", recomputed |-> FALSE, used |-> Unset]
    /\ UNCHANGED <<pc, cW, cED, cQ, ctor, layer, fwd, gs>>

\* an optimizer update of weight and alpha, taken while training
OptimizerStep ==
    /\ pc = "linear"
    /\ lin.training
    /\ \E w \in LinWeights, a \in LinAlphas :
          /\ <<w, a>> # <<lin.weight, lin.alpha>>
          /\ lin' = [lin EXCEPT !.weight = w, !.alpha = a]
    /\ linLast' = [op |-> "step", recomputed |-> FALSE, used |-> Unset]
    /\ UNCHANGED <<pc, cW, cED, cQ, ctor, layer, fwd, gs>>

NextLinear == Forward \/ ResetParameters \/ Train \/ Eval \/ OptimizerStep

SpecLinear == InitLinear /\ [][NextLinear]_vars

IsForwardStep == lin'.calls = lin.calls + 1

\* C4: a forward call in training mode recomputes Q from the current
\* weight and alpha; a forward call outside training computes Q only when
\* it is None and otherwise reuses the cached Q unchanged; Q goes back to
\* None only in reset_parameters.
C4_RecomputeOrReuse ==
    [][/\ (IsForwardStep /\ lin.training) =>
             (linLast'.recomputed /\ lin'.Q = FreshQ(lin) /\ linLast'.used = lin'.Q)
       /\ (IsForwardStep /\ ~lin.training /\ IsSet(lin.Q)) =>
             (~linLast'.recomputed /\ lin'.Q = lin.Q /\ linLast'.used = lin.Q)
       /\ (IsForwardStep /\ ~lin.training /\ ~IsSet(lin.Q)) =>
             (linLast'.recomputed /\ lin'.Q = FreshQ(lin) /\ linLast'.used = lin'.Q)
       /\ (IsSet(lin.Q) /\ ~IsSet(lin'.Q)) => linLast'.op = "reset_parameters"
      ]_vars

C4_Witness ==
    /\ pc = "linear"
    /\ linLast.op = "forward"
    /\ ~lin.training
    /\ ~linLast.recomputed
    /\ lin.calls = 3
    /\ IsSet(lin.Q)

\* C10: the Q used by an eval-mode forward call equals
\* cayley(alpha * weight / ||weight||) on the weight and alpha current at
\* that call.
C10_EvalQFresh ==
    (pc = "linear" /\ linLast.op = "forward" /\ ~lin.training) =>
        FracEq(linLast.used.q, FreshQ(lin).q)

(***************************************************************************)
(* GroupSort.  A tensor is its channel vector at one (batch, h, w)         *)
(* position: the operation is elementwise over the other axes.             *)
(***************************************************************************)
emax(a, b) == [i \in 1..Len(a) |-> IF a[i] >= b[i] THEN a[i] ELSE b[i]]
emin(a, b) == [i \in 1..Len(a) |-> IF a[i] <= b[i] THEN a[i] ELSE b[i]]

\* x.split(x.size(1) // 2, 1) unpacked into exactly two chunks
SplitHalves(x) ==
    LET h == Len(x) \div 2
    IN  IF h = 0 \/ Len(x) # 2 * h THEN [status |-> "raise"]
        ELSE [status |-> "ok", a |-> SubSeq(x, 1, h), b |-> SubSeq(x, h + 1, 2 * h)]

GroupSortForwardMaxOnly(x) ==
    LET sp == SplitHalves(x)
    IN  IF sp.status = "raise" THEN [status |-> "raise"]
        ELSE [status |-> "ok", y |-> emax(sp.a, sp.b) \o emax(sp.a, sp.b)]

\* GroupSort.forward
GroupSortForward(x) ==
    LET sp == SplitHalves(x)
    IN  IF sp.status = "raise" THEN [status |-> "raise"]
        ELSE [status |-> "ok", y |-> emax(sp.a, sp.b) \o emin(sp.a, sp.b)]

MaxAbs == 1
GSChannels == {2, 3, 4}
GSVals == (0 - MaxAbs)..MaxAbs

InitSort ==
    /\ pc = "sort:input"
    /\ \E c \in GSChannels : \E x1 \in [1..c -> GSVals], x2 \in [1..c -> GSVals] :
          gs = [x1 |-> x1, x2 |-> x2, r1 |-> [status |-> "none"], r2 |-> [status |-> "none"]]
    /\ cW = None /\ cED = None /\ cQ = None /\ ctor = None
    /\ layer = None /\ fwd = None /\ lin = None /\ linLast = None

ApplyGroupSort ==
    /\ pc = "sort:input"
    /\ gs' = [gs EXCEPT !.r1 = GroupSortForward(gs.x1), !.r2 = GroupSortForward(gs.x2)]
    /\ pc' = "sort:done"
    /\ UNCHANGED <<cW, cED, cQ, ctor, layer, fwd, lin, linLast>>

NextSort == ApplyGroupSort

SpecSort == InitSort /\ [][NextSort]_vars

RECURSIVE SqDist(_, _, _)
SqDist(u, v, k) ==
    IF k = 0 THEN 0 ELSE SqDist(u, v, k - 1) + (u[k] - v[k]) * (u[k] - v[k])

HalvesSorted(x) ==
    \A i \in 1..(Len(x) \div 2) : x[i] >= x[i + Len(x) \div 2]

\* C7: on inputs with an even number of channels GroupSort is 1-Lipschitz,
\* ||GroupSort(x1) - GroupSort(x2)||^2 <= ||x1 - x2||^2, and it returns
\* unchanged every input whose halves satisfy a >= b elementwise.
C7_GroupSortLipschitz ==
    (pc = "sort:done" /\ Len(gs.x1) % 2 = 0) =>
        /\ gs.r1.status = "ok" /\ gs.r2.status = "ok"
        /\ Len(gs.r1.y) = Len(gs.x1)
        /\ SqDist(gs.r1.y, gs.r2.y, Len(gs.x1)) <= SqDist(gs.x1, gs.x2, Len(gs.x1))
        /\ HalvesSorted(gs.x1) => gs.r1.y = gs.x1

C7_Witness ==
    /\ pc = "sort:done"
    /\ gs.x1 = <<0, 1, 1, 0>>
    /\ gs.x2 = <<1, 1, 0, 0>>
    /\ gs.r1.y = <<1, 1, 0, 0>>
    /\ gs.r2.y = gs.x2

====
